---------------------------- MODULE Spec2Model ----------------------------
(***************************************************************************)
(* A model of the evergreen-test command line tool of mongo-go-exp:        *)
(* the report fetcher (getInfos, graphql), the test-name prefix filter     *)
(* (filterTests) and the two reporters (topfail, failstats); and of the    *)
(* aggregation pipeline builders of package agg.                           *)
(*                                                                         *)
(* Go strings are modelled as sequences of byte values, so that            *)
(* sort.Strings, strings.HasPrefix and strings.Contains are computed on    *)
(* the bytes as the Go library computes them.                              *)
(***************************************************************************)
EXTENDS Integers, Sequences, FiniteSets, TLC

VARIABLES
    \* the harness around filterTests
    fpc,        \* "input" | "filtered" | "refiltered"
    input,      \* the slice as the caller built it
    tests,      \* the caller's slice, which filterTests sorts in place
    res,        \* the result of filterTests(tests)
    again,      \* the result of filterTests(res)
    \* one run of the command line tool
    pc,         \* position of the command's Action
    cmd,        \* the sub-command and its flags
    summary,    \* the decoded mainlineCommits response
    vi, bi,     \* getInfos' position: version index, variant index
    failedVariants, \* getInfos' failedVariants of the current version
    infos,      \* the RevisionInfo tree
    queries,    \* the GraphQL queries issued so far, in order
    resp,       \* the last HTTP exchange: transport outcome, status, and
                \* what the body holds (without its data)
    out,        \* the tables printed on stdout, in order
    err,        \* the error the command returned, as its chain of
                \* wrapped messages (<<>> for nil)
    \* one call of a builder of package agg
    apc,        \* "idle" | "returned"
    call,       \* the builder called and its arguments
    doc         \* the document the builder returned (a bson.D)

filterVars == <<fpc, input, tests, res, again>>
runVars == <<pc, cmd, summary, vi, bi, failedVariants, infos, queries, resp,
            out, err>>
aggVars == <<apc, call, doc>>
vars == <<fpc, input, tests, res, again,
          pc, cmd, summary, vi, bi, failedVariants, infos, queries, resp,
          out, err, apc, call, doc>>

-----------------------------------------------------------------------------
(* Bounds *)

\* longest slice handed to filterTests by the harness
MaxLen == 4

\* all sequences over S of length at most n
SeqsUpTo(S, n) == UNION {[1..k -> S] : k \in 0..n}

-----------------------------------------------------------------------------
(* Strings *)

\* the byte '/' that filterTests appends to a name
Slash == 47

\* "a", "a-x", "a/b", "c" as bytes; '-' (45) sorts before '/' (47)
NameA == <<97>>
NameADashX == <<97, 45, 120>>
NameAB == <<97, 47, 98>>
NameC == <<99>>

\* Go's string comparison s < t: byte-wise lexicographic
RECURSIVE StrLess(_, _)
StrLess(s, t) ==
    IF t = <<>> THEN FALSE
    ELSE IF s = <<>> THEN TRUE
    ELSE IF Head(s) # Head(t) THEN Head(s) < Head(t)
    ELSE StrLess(Tail(s), Tail(t))

\* strings.HasPrefix(s, prefix)
HasPrefix(s, prefix) ==
    /\ Len(s) >= Len(prefix)
    /\ SubSeq(s, 1, Len(prefix)) = prefix

\* strings.Contains(s, substr)
Contains(s, substr) ==
    \E k \in 0..(Len(s) - Len(substr)) :
        SubSeq(s, k + 1, k + Len(substr)) = substr

\* sort.Strings: equal strings are indistinguishable, so the sorted slice
\* is determined by the values; computed by insertion
RECURSIVE InsertSorted(_, _)
InsertSorted(x, s) ==
    IF s = <<>> THEN <<x>>
    ELSE IF StrLess(x, Head(s)) THEN <<x>> \o s
    ELSE <<Head(s)>> \o InsertSorted(x, Tail(s))

RECURSIVE SortStrings(_)
SortStrings(s) ==
    IF s = <<>> THEN <<>> ELSE InsertSorted(Head(s), SortStrings(Tail(s)))

-----------------------------------------------------------------------------
(* filterTests (main.go) *)

\* the loop's skip condition written with "i < len(tests)-1 &&": the last
\* name is never skipped
SkipTestKeepLast(ts, i) ==
    /\ i < Len(ts)
    /\ HasPrefix(ts[i + 1], ts[i] \o <<Slash>>)

\* the loop's skip condition at Go index i-1 (ts is 1-based here):
\*   i >= len(tests)-1 || strings.HasPrefix(tests[i+1], tests[i]+"/")
SkipTest(ts, i) ==
    \/ i >= Len(ts)
    \/ HasPrefix(ts[i + 1], ts[i] \o <<Slash>>)

\* the loop of filterTests over the sorted slice
RECURSIVE filterLoop(_, _, _)
filterLoop(ts, i, acc) ==
    IF i > Len(ts) THEN acc
    ELSE IF SkipTest(ts, i) THEN filterLoop(ts, i + 1, acc)
    ELSE filterLoop(ts, i + 1, Append(acc, ts[i]))

\* the value filterTests returns
filterTests(ts) == filterLoop(SortStrings(ts), 1, <<>>)

-----------------------------------------------------------------------------
(* The harness around filterTests: a caller builds a slice, filters it,   *)
(* and filters the result once more.                                       *)

FilterNames == {NameA, NameADashX, NameAB, NameC}

\* no HTTP exchange has taken place
NoResponse ==
    [transport |-> "none", status |-> 0, json |-> FALSE, top |-> "none",
     hasErrors |-> FALSE, errors |-> <<>>, typed |-> FALSE]

\* no builder of package agg has been called
NoCall == [fn |-> "none", exprs |-> <<>>, fields |-> <<>>, sorts |-> <<>>,
           names |-> <<>>, nums |-> <<>>]

AggIdle ==
    /\ apc = "idle"
    /\ call = NoCall
    /\ doc = <<>>

RunIdle ==
    /\ pc = "idle"
    /\ cmd = [name |-> "none"]
    /\ summary = <<>>
    /\ vi = 0
    /\ bi = 0
    /\ failedVariants = <<>>
    /\ infos = <<>>
    /\ queries = <<>>
    /\ resp = NoResponse
    /\ out = <<>>
    /\ err = <<>>

InitFilter ==
    /\ AggIdle
    /\ fpc = "input"
    /\ input \in SeqsUpTo(FilterNames, MaxLen)
    /\ tests = input
    /\ res = <<>>
    /\ again = <<>>
    /\ RunIdle

\* res := filterTests(tests); the caller's slice is left sorted
CallFilterTests ==
    /\ fpc = "input"
    /\ tests' = SortStrings(tests)
    /\ res' = filterTests(tests)
    /\ fpc' = "filtered"
    /\ UNCHANGED <<input, again>>
    /\ UNCHANGED runVars
    /\ UNCHANGED aggVars

\* again := filterTests(res)
CallFilterTestsAgain ==
    /\ fpc = "filtered"
    /\ again' = filterTests(res)
    /\ res' = SortStrings(res)
    /\ fpc' = "refiltered"
    /\ UNCHANGED <<input, tests>>
    /\ UNCHANGED runVars
    /\ UNCHANGED aggVars

NextFilter == CallFilterTests \/ CallFilterTestsAgain

SpecFilter == InitFilter /\ [][NextFilter]_vars

-----------------------------------------------------------------------------
(* The RevisionInfo tree (main.go, revisionInfo / variantInfo / taskInfo)  *)
(* and the reporters' walk over it.  Created and Message are carried by    *)
(* getInfos and read by no reporter; they are left out of the records.     *)

\* most versions of a tree, variants of a version, tasks of a variant
MaxVersions == 2
MaxVariants == 1
MaxTasks == 1
\* most failing test names of a task in the topfail inputs
MaxTests == 3
\* most failing test names of a task in the failstats inputs
MaxStatTests == 2
\* largest --limit tried
MaxLimit == 3

RECURSIVE ConcatAll(_)
ConcatAll(ss) == IF ss = <<>> THEN <<>> ELSE Head(ss) \o ConcatAll(Tail(ss))

\* the (version, variant, task) entries of the tree in the order in which
\* the nested range loops of both reporters visit them
TasksOf(info) ==
    ConcatAll([b \in DOMAIN info.FailedVariants |->
        [t \in DOMAIN info.FailedVariants[b].FailedTasks |->
            [VersionID |-> info.VersionID,
             Revision |-> info.Revision,
             DisplayName |-> info.FailedVariants[b].DisplayName,
             Task |-> info.FailedVariants[b].FailedTasks[t].Task,
             FailedTests |-> info.FailedVariants[b].FailedTasks[t].FailedTests]]])

Entries(tree) == ConcatAll([v \in DOMAIN tree |-> TasksOf(tree[v])])

\* m[k]++ on a Go map of counters (a missing key reads as 0)
Incr(m, k) ==
    IF k \in DOMAIN m THEN [m EXCEPT ![k] = @ + 1] ELSE m @@ (k :> 1)

RECURSIVE IncrAll(_, _)
IncrAll(m, ks) ==
    IF ks = <<>> THEN m ELSE IncrAll(Incr(m, Head(ks)), Tail(ks))

\* the empty Go map
EmptyMap == [k \in {} |-> 0]

\* a key/count map collected and sorted with the comparison reversed
\* (ascending counts)
SortedByCountAscending(m) ==
    {s \in [1..Cardinality(DOMAIN m) -> DOMAIN m] :
        /\ \A i, j \in DOMAIN s : i # j => s[i] # s[j]
        /\ \A i, j \in DOMAIN s : i < j => m[s[i]] <= m[s[j]]}

\* a key/count map collected into a slice and sorted by sort.Slice with
\* less(i, j) = count[i] > count[j]: map iteration order is random and the
\* sort is not stable, so every arrangement of the keys in which no later
\* count exceeds an earlier one can be the result
SortedByCount(m) ==
    {s \in [1..Cardinality(DOMAIN m) -> DOMAIN m] :
        /\ \A i, j \in DOMAIN s : i # j => s[i] # s[j]
        /\ \A i, j \in DOMAIN s : i < j => m[s[i]] >= m[s[j]]}

\* the rows printed for keys in the order s
Rows(m, s) == [i \in DOMAIN s |-> [Count |-> m[s[i]], Key |-> s[i]]]

-----------------------------------------------------------------------------
(* topfail (topfail.go) *)

\* the tally loop, topfail.go:87-108: TotalFailures per test name
RECURSIVE TallyTests(_, _)
TallyTests(m, es) ==
    IF es = <<>> THEN m
    ELSE TallyTests(IncrAll(m, filterTests(Head(es).FailedTests)), Tail(es))

\* a truncation that treats limit 0 as "no limit"
TruncateNoLimitAtZero(rows, limit) ==
    IF limit > 0 /\ Len(rows) > limit THEN SubSeq(rows, 1, limit) ELSE rows

\* a truncation that also cuts a table of exactly limit rows
TruncateOffByOne(rows, limit) ==
    IF limit >= 0 /\ Len(rows) >= limit
    THEN LET n == IF limit >= Len(rows) THEN Len(rows) - 1 ELSE limit
         IN  SubSeq(rows, 1, IF n < 0 THEN 0 ELSE n)
    ELSE rows

\* the truncation, topfail.go:113-119
Truncate(rows, limit) ==
    IF limit >= 0 /\ Len(rows) > limit
    THEN LET n == IF limit >= Len(rows) THEN Len(rows) - 1 ELSE limit
         IN  SubSeq(rows, 1, n)
    ELSE rows

\* the tree after topfail's walk: filterTests has sorted every task's
\* FailedTests slice in place (the slice shares its array with the tree)
SortedInPlace(tree) ==
    [v \in DOMAIN tree |->
        [tree[v] EXCEPT !.FailedVariants =
            [b \in DOMAIN @ |->
                [@[b] EXCEPT !.FailedTasks =
                    [t \in DOMAIN @ |->
                        [@[t] EXCEPT !.FailedTests = SortStrings(@)]]]]]]

\* topfail's Action from the return of getInfos to w.Flush()
TopfailReport ==
    /\ pc = "report"
    /\ cmd.name = "topfail"
    /\ LET m == TallyTests(EmptyMap, Entries(infos))
       IN  \E s \in SortedByCount(m) :
               out' = <<[Header |-> "Test Name",
                         Rows |-> Truncate(Rows(m, s), cmd.limit)]>>
    /\ infos' = SortedInPlace(infos)
    /\ pc' = "done"
    /\ err' = <<>>
    /\ UNCHANGED <<cmd, summary, vi, bi, failedVariants, queries, resp>>
    /\ UNCHANGED filterVars
    /\ UNCHANGED aggVars

-----------------------------------------------------------------------------
(* failstats (unnamed/part_000) *)

\* the tally loop of failstats walking the prefix-filtered names instead
\* of task.FailedTests
RECURSIVE TallyMatchesFiltered(_, _, _, _)
TallyMatchesFiltered(m, es, testName, which) ==
    IF es = <<>> THEN m
    ELSE LET e == Head(es)
             hits == SelectSeq(filterTests(e.FailedTests),
                               LAMBDA t : Contains(t, testName))
         IN  TallyMatchesFiltered(IncrAll(m, [i \in DOMAIN hits |-> e[which]]),
                                  Tail(es), testName, which)

\* the three counters of the tally loop, part_000:80-111; which selects
\* the key of an entry
RECURSIVE TallyMatches(_, _, _, _)
TallyMatches(m, es, testName, which) ==
    IF es = <<>> THEN m
    ELSE LET e == Head(es)
             hits == SelectSeq(e.FailedTests, LAMBDA t : Contains(t, testName))
         IN  TallyMatches(IncrAll(m, [i \in DOMAIN hits |-> e[which]]),
                          Tail(es), testName, which)

\* printColumns, part_000:113-136
printColumns(header, rows) ==
    {[Header |-> header, Rows |-> Rows(rows, s)] : s \in SortedByCount(rows)}

\* failstats' Action from the return of getInfos to its return
FailstatsReport ==
    /\ pc = "report"
    /\ cmd.name = "failstats"
    /\ LET es == Entries(infos)
           versions == TallyMatches(EmptyMap, es, cmd.test, "VersionID")
           variants == TallyMatches(EmptyMap, es, cmd.test, "DisplayName")
           tasks == TallyMatches(EmptyMap, es, cmd.test, "Task")
       IN  \E t1 \in printColumns("Version", versions),
              t2 \in printColumns("Variant", variants),
              t3 \in printColumns("Task", tasks) :
               out' = <<t1, t2, t3>>
    /\ pc' = "done"
    /\ err' = <<>>
    /\ UNCHANGED <<cmd, summary, vi, bi, failedVariants, infos, queries, resp>>
    /\ UNCHANGED filterVars
    /\ UNCHANGED aggVars

-----------------------------------------------------------------------------
(* The reporters on their own: getInfos has returned a tree and the        *)
(* command's reporter runs on it.                                          *)

ReportNames == {NameA, NameAB, NameC}

\* the trees getInfos can return with these identifiers and test lists
Trees(vids, vnames, tnames, lists) ==
    LET taskInfos == [Task : tnames, FailedTests : lists]
        variantInfos == [DisplayName : vnames,
                         FailedTasks : SeqsUpTo(taskInfos, MaxTasks)]
        revisionInfos == [VersionID : vids, Revision : {"r1"},
                          FailedVariants : SeqsUpTo(variantInfos, MaxVariants)]
    IN  SeqsUpTo(revisionInfos, MaxVersions)

TopfailTrees ==
    Trees({"v1"}, {"linux"}, {"unit"}, SeqsUpTo(ReportNames, MaxTests))

FailstatsTrees ==
    Trees({"v1", "v2"}, {"linux", "mac"}, {"unit", "lint"},
          SeqsUpTo(ReportNames, MaxStatTests))

\* topfail --limit K
TopfailCommands ==
    {[name |-> "topfail", limit |-> k, test |-> <<>>] : k \in (-1)..MaxLimit}

\* failstats --test NAME
FailstatsCommands ==
    {[name |-> "failstats", limit |-> 0, test |-> n] : n \in ReportNames}

FilterIdle ==
    /\ fpc = "idle"
    /\ input = <<>>
    /\ tests = <<>>
    /\ res = <<>>
    /\ again = <<>>

InitReport ==
    /\ AggIdle
    /\ FilterIdle
    /\ pc = "report"
    /\ \/ cmd \in TopfailCommands /\ infos \in TopfailTrees
       \/ cmd \in FailstatsCommands /\ infos \in FailstatsTrees
    /\ summary = <<>>
    /\ vi = 0
    /\ bi = 0
    /\ failedVariants = <<>>
    /\ queries = <<>>
    /\ resp = NoResponse
    /\ out = <<>>
    /\ err = <<>>

NextReport == TopfailReport \/ FailstatsReport

SpecReport == InitReport /\ [][NextReport]_vars

-----------------------------------------------------------------------------
(* graphql and getInfos (main.go): what the server may answer *)

\* most versions of a summary response, build variants of a version,
\* tasks of a build variant, samples of a detail response, and failing
\* test names of a sample
MaxFetchVersions == 2
MaxFetchVariants == 2
MaxFetchTasks == 1
MaxSamples == 1
MaxFetchTests == 1

\* the default of topfail's --limit flag
DefaultLimit == 20

\* identifiers by position in the response
VersionIDs == <<"v1", "v2", "v3">>
Revisions == <<"r1", "r2", "r3">>
VariantNames == <<"linux", "mac", "win">>
TaskIDs == <<"t1", "t2">>
TaskNames == <<"unit", "lint">>

\* data.mainlineCommits.versions of a summary response, decoded into
\* getInfos' types: shape[i][b] is the number of tasks of build variant b
\* of version i
Versions(shape) ==
    [i \in DOMAIN shape |->
        [ID |-> VersionIDs[i],
         Revision |-> Revisions[i],
         BuildVariants |-> [b \in DOMAIN shape[i] |->
            [DisplayName |-> VariantNames[b],
             Tasks |-> [t \in 1..shape[i][b] |->
                [ID |-> TaskIDs[t], DisplayName |-> TaskNames[t]]]]]]]

SummaryPayloads ==
    {Versions(shape) :
        shape \in SeqsUpTo(SeqsUpTo(0..MaxFetchTasks, MaxFetchVariants),
                           MaxFetchVersions)}

\* data.taskTestSample of a detail response; "t9" is a task id that no
\* query asks for
DetailPayloads ==
    SeqsUpTo([TaskID : {"t1", "t9"},
              MatchingFailedTestNames : SeqsUpTo({NameA}, MaxFetchTests)],
             MaxSamples)

\* the HTTP statuses the server answers with
Statuses == {200, 500}

\* what http.DefaultClient.Do and io.ReadAll can produce for a query whose
\* data, when the body is JSON that fits getInfos' types, is one of
\* payloads: a transport error, or a status and a body.  A body is not
\* JSON, or is JSON whose top-level value is an array (standing for every
\* value that is not an object) or an object; an object comes with or
\* without a top-level errors array and with data that does or does not
\* fit the types.
Responses(payloads) ==
    {[transport |-> t, status |-> 0, json |-> FALSE, top |-> "none",
      hasErrors |-> FALSE, errors |-> <<>>, typed |-> FALSE, data |-> <<>>] :
        t \in {"doError", "readError"}}
    \cup
    {[transport |-> "ok", status |-> st, json |-> FALSE, top |-> "none",
      hasErrors |-> FALSE, errors |-> <<>>, typed |-> FALSE, data |-> <<>>] :
        st \in Statuses}
    \cup
    {[transport |-> "ok", status |-> st, json |-> TRUE, top |-> "array",
      hasErrors |-> FALSE, errors |-> <<>>, typed |-> FALSE, data |-> <<>>] :
        st \in Statuses}
    \cup
    {[transport |-> "ok", status |-> st, json |-> TRUE, top |-> "object",
      hasErrors |-> e[1], errors |-> e[2], typed |-> FALSE, data |-> <<>>] :
        st \in Statuses,
        e \in {<<FALSE, <<>>>>, <<TRUE, <<>>>>, <<TRUE, <<"boom">>>>}}
    \cup
    {[transport |-> "ok", status |-> st, json |-> TRUE, top |-> "object",
      hasErrors |-> e[1], errors |-> e[2], typed |-> TRUE, data |-> d] :
        st \in Statuses,
        e \in {<<FALSE, <<>>>>, <<TRUE, <<>>>>, <<TRUE, <<"boom">>>>},
        d \in payloads}

\* what the state keeps of a response
Meta(r) ==
    [transport |-> r.transport, status |-> r.status, json |-> r.json,
     top |-> r.top, hasErrors |-> r.hasErrors, errors |-> r.errors,
     typed |-> r.typed]

\* a graphql that rejects every response whose status is not 2xx before it
\* reads the body
graphqlChecksStatus(r) ==
    IF r.transport = "doError"
    THEN [err |-> <<"error querying GraphQL API">>, body |-> <<>>]
    ELSE IF r.status < 200 \/ r.status > 299
    THEN [err |-> <<"unexpected HTTP status">>, body |-> <<>>]
    ELSE IF r.transport = "readError"
    THEN [err |-> <<"error reading GraphQL response">>, body |-> <<>>]
    ELSE IF ~r.json \/ r.top # "object"
    THEN [err |-> <<"error unmarshaling GraphQL response to check for errors">>,
          body |-> <<>>]
    ELSE IF Len(r.errors) > 0
    THEN [err |-> <<"GraphQL API returned errors">>, body |-> <<>>]
    ELSE [err |-> <<>>, body |-> <<r>>]

\* a graphql that returns the body also when its errors array is not empty
graphqlIgnoresErrors(r) ==
    IF r.transport = "doError"
    THEN [err |-> <<"error querying GraphQL API">>, body |-> <<>>]
    ELSE IF r.transport = "readError"
    THEN [err |-> <<"error reading GraphQL response">>, body |-> <<>>]
    ELSE IF ~r.json \/ r.top # "object"
    THEN [err |-> <<"error unmarshaling GraphQL response to check for errors">>,
          body |-> <<>>]
    ELSE [err |-> <<>>, body |-> <<r>>]

\* graphql (main.go:424-476) on the response r: the error it returns (<<>>
\* for nil) and the body it returns.  res.StatusCode is never read.
\* json.Unmarshal into errRes (main.go:464-469) fails on a body that is
\* not JSON and on a JSON value that is not an object.
graphql(r) ==
    IF r.transport = "doError"
    THEN [err |-> <<"error querying GraphQL API">>, body |-> <<>>]
    ELSE IF r.transport = "readError"
    THEN [err |-> <<"error reading GraphQL response">>, body |-> <<>>]
    ELSE IF ~r.json \/ r.top # "object"
    THEN [err |-> <<"error unmarshaling GraphQL response to check for errors">>,
          body |-> <<>>]
    ELSE IF Len(r.errors) > 0
    THEN [err |-> <<"GraphQL API returned errors">>, body |-> <<>>]
    ELSE [err |-> <<>>, body |-> <<r>>]

\* json.Unmarshal of a returned body into getInfos' response struct
\* (main.go:321, 365): an error when the data does not fit the types
Unmarshal(g) ==
    IF g.body[1].typed
    THEN [err |-> <<>>, data |-> g.body[1].data]
    ELSE [err |-> <<"json">>, data |-> <<>>]

\* the revisionInfo appended when a version's variants are done
\* (main.go:389-395)
RevisionInfo(ver, fv) ==
    [VersionID |-> ver.ID, Revision |-> ver.Revision, FailedVariants |-> fv]

\* loops that pass over a build variant without tasks: no query for it
\* and no variantInfo
RECURSIVE WalkSkipsEmptyVariants(_, _, _, _, _)
WalkSkipsEmptyVariants(sm, v, b, fv, inf) ==
    IF v > Len(sm)
    THEN [vi |-> v, bi |-> b, failedVariants |-> fv, infos |-> inf,
          done |-> TRUE]
    ELSE IF b > Len(sm[v].BuildVariants)
    THEN WalkSkipsEmptyVariants(sm, v + 1, 1, <<>>,
                                Append(inf, RevisionInfo(sm[v], fv)))
    ELSE IF sm[v].BuildVariants[b].Tasks = <<>>
    THEN WalkSkipsEmptyVariants(sm, v, b + 1, fv, inf)
    ELSE [vi |-> v, bi |-> b, failedVariants |-> fv, infos |-> inf,
          done |-> FALSE]

\* the two range loops of getInfos (main.go:338-340, 387-398) from
\* version v, variant b on: every version whose variants are done is
\* appended to infos, up to the next variant to query or the end
RECURSIVE Walk(_, _, _, _, _)
Walk(sm, v, b, fv, inf) ==
    IF v > Len(sm)
    THEN [vi |-> v, bi |-> b, failedVariants |-> fv, infos |-> inf,
          done |-> TRUE]
    ELSE IF b > Len(sm[v].BuildVariants)
    THEN Walk(sm, v + 1, 1, <<>>, Append(inf, RevisionInfo(sm[v], fv)))
    ELSE [vi |-> v, bi |-> b, failedVariants |-> fv, infos |-> inf,
          done |-> FALSE]

\* a getInfos that, when a query fails, returns the versions fetched so
\* far without an error, and the reporter runs on them
FetchFailedPartial(e) ==
    /\ pc' = "report"
    /\ err' = <<>>
    /\ infos' = infos
    /\ failedVariants' = <<>>
    /\ UNCHANGED <<summary, vi, bi, out>>

\* getInfos returns nil and the error e (main.go:313-324, 356-368); the
\* command wraps it and returns (topfail.go:74-76, part_000:75-77)
FetchFailed(e) ==
    /\ pc' = "failed"
    /\ err' = <<"error getting revision info">> \o e
    /\ infos' = <<>>
    /\ failedVariants' = <<>>
    /\ UNCHANGED <<summary, vi, bi, out>>

\* getInfos goes on after a query: to the next variant, or it returns
FetchGoesOn(sm, w) ==
    /\ summary' = sm
    /\ vi' = w.vi
    /\ bi' = w.bi
    /\ failedVariants' = w.failedVariants
    /\ infos' = w.infos
    /\ pc' = IF w.done THEN "report" ELSE "detail"
    /\ UNCHANGED <<out, err>>

\* the entry of the query log
Query(name, versionId, taskIds, ok) ==
    [query |-> name, versionId |-> versionId, taskIds |-> taskIds, ok |-> ok]

-----------------------------------------------------------------------------
(* One run of a command: resolve the project, fetch, report *)

FetchCommands ==
    {[name |-> "topfail", limit |-> DefaultLimit, test |-> <<>>],
     [name |-> "failstats", limit |-> 0, test |-> NameA]}

Init ==
    /\ AggIdle
    /\ FilterIdle
    /\ pc = "start"
    /\ cmd \in FetchCommands
    /\ summary = <<>>
    /\ vi = 0
    /\ bi = 0
    /\ failedVariants = <<>>
    /\ infos = <<>>
    /\ queries = <<>>
    /\ resp = NoResponse
    /\ out = <<>>
    /\ err = <<>>

\* the Action up to the call of getInfos (topfail.go:38-66,
\* part_000:38-66): the settings load and a project is found, or the
\* command returns an error
Resolve ==
    /\ pc = "start"
    /\ \/ pc' = "summary" /\ err' = <<>>
       \/ /\ pc' = "failed"
          /\ err' \in {<<"error loading configuration">>,
                       <<"error getting cwd">>,
                       <<"error evaluating symlinks for cwd">>,
                       <<"need to specify a project">>}
    /\ UNCHANGED <<cmd, summary, vi, bi, failedVariants, infos, queries,
                   resp, out>>
    /\ UNCHANGED filterVars
    /\ UNCHANGED aggVars

\* getInfos' mainlineCommits query (main.go:307-324) and the start of
\* its loops
SummaryQuery ==
    /\ pc = "summary"
    /\ \E r \in Responses(SummaryPayloads) :
        LET g == graphql(r)
            u == Unmarshal(g)
            ok == g.err = <<>> /\ u.err = <<>>
        IN  /\ queries' = Append(queries, Query("mainlineCommits", "", {}, ok))
            /\ resp' = Meta(r)
            /\ IF g.err # <<>>
               THEN FetchFailed(<<"error querying mainlineCommits">> \o g.err)
               ELSE IF u.err # <<>>
               THEN FetchFailed(<<"error unmarshaling mainlineCommits">>)
               ELSE FetchGoesOn(u.data, Walk(u.data, 1, 1, <<>>, <<>>))
    /\ UNCHANGED cmd
    /\ UNCHANGED filterVars
    /\ UNCHANGED aggVars

\* taskIDs[id] of getInfos (main.go:341-344, 379): the display name of the
\* task with that id, "" for an id the variant does not have
TaskName(variant, id) ==
    IF \E t \in DOMAIN variant.Tasks : variant.Tasks[t].ID = id
    THEN LET last == CHOOSE t \in DOMAIN variant.Tasks :
                 /\ variant.Tasks[t].ID = id
                 /\ \A t2 \in DOMAIN variant.Tasks :
                        variant.Tasks[t2].ID = id => t2 <= t
         IN  variant.Tasks[last].DisplayName
    ELSE ""

\* getInfos' taskTestSample query for the variant at (vi, bi)
\* (main.go:340-386) and the loops up to the next query
DetailQuery ==
    /\ pc = "detail"
    /\ LET ver == summary[vi]
           variant == ver.BuildVariants[bi]
           taskIds == {variant.Tasks[t].ID : t \in DOMAIN variant.Tasks}
       IN  \E r \in Responses(DetailPayloads) :
            LET g == graphql(r)
                u == Unmarshal(g)
                ok == g.err = <<>> /\ u.err = <<>>
                failedTasks == [k \in DOMAIN u.data |->
                    [Task |-> TaskName(variant, u.data[k].TaskID),
                     FailedTests |-> u.data[k].MatchingFailedTestNames]]
                fv == Append(failedVariants,
                        [DisplayName |-> variant.DisplayName,
                         FailedTasks |-> failedTasks])
            IN  /\ queries' = Append(queries,
                        Query("taskTestSample", ver.ID, taskIds, ok))
                /\ resp' = Meta(r)
                /\ IF g.err # <<>>
                   THEN FetchFailed(<<"error querying taskTestSample">> \o g.err)
                   ELSE IF u.err # <<>>
                   THEN FetchFailed(<<"error unmarshaling taskTestSample">>)
                   ELSE FetchGoesOn(summary, Walk(summary, vi, bi + 1, fv, infos))
    /\ UNCHANGED cmd
    /\ UNCHANGED filterVars
    /\ UNCHANGED aggVars

Next ==
    \/ Resolve
    \/ SummaryQuery
    \/ DetailQuery
    \/ TopfailReport
    \/ FailstatsReport

Spec == Init /\ [][Next]_vars

-----------------------------------------------------------------------------
(* Package agg: BSON values, agg.go and stage.go *)

\* most arguments of a variadic builder call
MaxArgs == 2

\* a Go value passed to or built by a builder.  Every value carries every
\* field, so that values of different kinds can be compared.  A nil slice
\* is a slice of length 0.
Value(kind, str, num, items, fields) ==
    [kind |-> kind, str |-> str, num |-> num, items |-> items,
     fields |-> fields]

\* a string, an integer, the untyped nil, a bson.A, a []string, a bson.D
Str(s) == Value("string", s, 0, <<>>, <<>>)
IntValue(n) == Value("int", "", n, <<>>, <<>>)
Nil == Value("nil", "", 0, <<>>, <<>>)
A(items) == Value("A", "", 0, items, <<>>)
Strings(ss) == Value("[]string", "", 0, [i \in DOMAIN ss |-> Str(ss[i])], <<>>)
D(fields) == Value("D", "", 0, <<>>, fields)

\* bson.E
E(key, value) == [Key |-> key, Value |-> value]

\* agg.go:9-11
Field(name, expr) == E(name, expr)

\* agg.go:15-25
SortAscending(fieldName) == E(fieldName, IntValue(1))
SortDescending(fieldName) == E(fieldName, IntValue(-1))
SortExpr(fieldName, expr) == E(fieldName, expr)

\* agg.go:27-32
sortBysToD(sorts) == D([i \in DOMAIN sorts |-> sorts[i]])

\* stage.go:7-13
AddFields(fields) ==
    <<E("$addFields", D([i \in DOMAIN fields |-> fields[i]]))>>

\* stage.go:15-17
Count(fieldName) == <<E("$count", Str(fieldName))>>

\* stage.go:20-22
CountAccumulator == <<E("$count", D(<<>>))>>

\* a Group that appends the accumulators to the stage instead of its body
GroupFlat(key, accumulators) ==
    <<E("$group", D(<<E("_id", key)>>))>> \o accumulators

\* stage.go:24-38
Group(key, accumulators) ==
    <<E("$group", D(<<E("_id", key)>> \o accumulators))>>

\* stage.go:41-43
Match(query) == <<E("$match", query)>>

\* stage.go:45-55
Project(specifications) ==
    <<E("$project", D([i \in DOMAIN specifications |-> specifications[i]]))>>

\* stage.go:57-59
Sort(sortBys) == <<E("$sort", sortBysToD(sortBys))>>

\* stage.go:61-63
Unset(fields) == <<E("$unset", Strings(fields))>>

\* stage.go:66-74
Unwind(fieldPath) == <<E("$unwind", D(<<E("path", Str(fieldPath))>>))>>

-----------------------------------------------------------------------------
(* Package agg: operator.go *)

\* operator.go:7-9
Abs(numExpr) == <<E("$abs", numExpr)>>

\* operator.go:11-22
Bottom(outputExpr, sortBys) ==
    <<E("$bottom", D(<<E("sortBy", sortBysToD(sortBys)),
                       E("output", outputExpr)>>))>>

\* operator.go:28-42
BottomNExpr(outputExpr, nExpr, sortBys) ==
    <<E("$bottomN", D(<<E("n", nExpr),
                        E("sortBy", sortBysToD(sortBys)),
                        E("output", outputExpr)>>))>>

\* operator.go:24-26; n is an int64
BottomN(outputExpr, n, sortBys) ==
    BottomNExpr(outputExpr, IntValue(n), sortBys)

\* operator.go:44-58
Cond(ifExpr, thenExpr, elseExpr) ==
    <<E("$cond", D(<<E("if", ifExpr), E("then", thenExpr),
                     E("else", elseExpr)>>))>>

\* operator.go:60-65
Divide(numeratorExpr, denomExpr) ==
    <<E("$divide", A(<<numeratorExpr, denomExpr>>))>>

\* operator.go:67-72
Eq(expr1, expr2) == <<E("$eq", A(<<expr1, expr2>>))>>

\* operator.go:75-94; as is a string
Filter(inputExpr, as, condExpr, limitExpr) ==
    LET body0 == <<E("input", inputExpr), E("cond", condExpr)>>
        body1 == IF as # "" THEN Append(body0, E("as", Str(as))) ELSE body0
        body2 == IF limitExpr # Nil
                 THEN Append(body1, E("limit", limitExpr))
                 ELSE body1
    IN  <<E("$filter", D(body2))>>

\* operator.go:96-101
In(targetExpr, arrExpr) == <<E("$in", A(<<targetExpr, arrExpr>>))>>

\* operator.go:103-118; as is a string
Map(inputExpr, as, inExpr) ==
    LET body0 == <<E("input", inputExpr)>>
        body1 == IF as # "" THEN Append(body0, E("as", Str(as))) ELSE body0
    IN  <<E("$map", D(Append(body1, E("in", inExpr))))>>

\* a Max that never collapses a single argument
MaxAlwaysList(exprs) == <<E("$max", A(exprs))>>

\* operator.go:120-133
Max(exprs) ==
    LET body == IF Len(exprs) = 1 THEN exprs[1] ELSE A(exprs)
    IN  <<E("$max", body)>>

\* operator.go:135-148
Min(exprs) ==
    LET body == IF Len(exprs) = 1 THEN exprs[1] ELSE A(exprs)
    IN  <<E("$min", body)>>

\* operator.go:150-163
MergeObjects(documentExprs) ==
    LET body == IF Len(documentExprs) = 1
                THEN documentExprs[1]
                ELSE A(documentExprs)
    IN  <<E("$mergeObjects", body)>>

\* operator.go:165-170
Ne(expr1, expr2) == <<E("$ne", A(<<expr1, expr2>>))>>

\* operator.go:172-177
Or(exprs) == <<E("$or", A(exprs))>>

\* operator.go:179-193
Reduce(inputExpr, initialValueExpr, inExpr) ==
    <<E("$reduce", D(<<E("input", inputExpr),
                       E("initialValue", initialValueExpr),
                       E("in", inExpr)>>))>>

\* operator.go:195-197
Sum(numExpr) == <<E("$sum", numExpr)>>

\* operator.go:199-210
Top(outputExpr, sortBy) ==
    <<E("$top", D(<<E("sortBy", sortBysToD(sortBy)),
                    E("output", outputExpr)>>))>>

\* operator.go:216-230
TopNExpr(outputExpr, nExpr, sortBy) ==
    <<E("$topN", D(<<E("n", nExpr),
                     E("sortBy", sortBysToD(sortBy)),
                     E("output", outputExpr)>>))>>

\* operator.go:212-214; outputExpr and n are both int64
TopN(outputExpr, n, sortBy) ==
    TopNExpr(IntValue(outputExpr), IntValue(n), sortBy)

-----------------------------------------------------------------------------
(* One call of a builder of package agg *)

\* the expressions, field names, "as" names and counts a caller passes
Exprs == {Str("$x"), IntValue(1), Nil, A(<<Str("$x")>>)}
FieldNames == {"a", "b"}
AsNames == {"", "item"}
Counts == {1, 2}

\* the FieldExpr and SortBy values a caller builds with agg.go
FieldExprs == {Field(n, e) : n \in FieldNames, e \in {Str("$x"), IntValue(1)}}
SortBys ==
    {SortAscending(f) : f \in FieldNames}
    \cup {SortDescending(f) : f \in FieldNames}
    \cup {SortExpr("a", Str("$x"))}

\* the argument lists of a variadic parameter
Variadic(S) == SeqsUpTo(S, MaxArgs)

InitAgg ==
    /\ FilterIdle
    /\ RunIdle
    /\ AggIdle

\* the builder fn, called with these arguments, returns the document d
Returns(fn, exprs, fields, sorts, names, nums, d) ==
    /\ apc = "idle"
    /\ apc' = "returned"
    /\ call' = [fn |-> fn, exprs |-> exprs, fields |-> fields,
                sorts |-> sorts, names |-> names, nums |-> nums]
    /\ doc' = d
    /\ UNCHANGED filterVars
    /\ UNCHANGED runVars

CallAddFields ==
    \E fs \in Variadic(FieldExprs) :
        Returns("AddFields", <<>>, fs, <<>>, <<>>, <<>>, AddFields(fs))

CallCount ==
    \E f \in FieldNames :
        Returns("Count", <<>>, <<>>, <<>>, <<f>>, <<>>, Count(f))

CallCountAccumulator ==
    Returns("CountAccumulator", <<>>, <<>>, <<>>, <<>>, <<>>,
            CountAccumulator)

CallGroup ==
    \E key \in Exprs, accs \in Variadic(FieldExprs) :
        Returns("Group", <<key>>, accs, <<>>, <<>>, <<>>, Group(key, accs))

CallMatch ==
    \E q \in Exprs :
        Returns("Match", <<q>>, <<>>, <<>>, <<>>, <<>>, Match(q))

CallProject ==
    \E fs \in Variadic(FieldExprs) :
        Returns("Project", <<>>, fs, <<>>, <<>>, <<>>, Project(fs))

CallSort ==
    \E ss \in Variadic(SortBys) :
        Returns("Sort", <<>>, <<>>, ss, <<>>, <<>>, Sort(ss))

CallUnset ==
    \E fs \in Variadic(FieldNames) :
        Returns("Unset", <<>>, <<>>, <<>>, fs, <<>>, Unset(fs))

CallUnwind ==
    \E f \in FieldNames :
        Returns("Unwind", <<>>, <<>>, <<>>, <<f>>, <<>>, Unwind(f))

CallAbs ==
    \E x \in Exprs :
        Returns("Abs", <<x>>, <<>>, <<>>, <<>>, <<>>, Abs(x))

CallBottom ==
    \E o \in Exprs, ss \in Variadic(SortBys) :
        Returns("Bottom", <<o>>, <<>>, ss, <<>>, <<>>, Bottom(o, ss))

CallBottomN ==
    \E o \in Exprs, n \in Counts, ss \in Variadic(SortBys) :
        Returns("BottomN", <<o>>, <<>>, ss, <<>>, <<n>>, BottomN(o, n, ss))

CallBottomNExpr ==
    \E o \in Exprs, n \in Exprs, ss \in Variadic(SortBys) :
        Returns("BottomNExpr", <<o, n>>, <<>>, ss, <<>>, <<>>,
                BottomNExpr(o, n, ss))

CallCond ==
    \E i \in Exprs, t \in Exprs, e \in Exprs :
        Returns("Cond", <<i, t, e>>, <<>>, <<>>, <<>>, <<>>, Cond(i, t, e))

CallDivide ==
    \E x \in Exprs, y \in Exprs :
        Returns("Divide", <<x, y>>, <<>>, <<>>, <<>>, <<>>, Divide(x, y))

CallEq ==
    \E x \in Exprs, y \in Exprs :
        Returns("Eq", <<x, y>>, <<>>, <<>>, <<>>, <<>>, Eq(x, y))

CallFilter ==
    \E i \in Exprs, as \in AsNames, c \in Exprs, l \in Exprs :
        Returns("Filter", <<i, c, l>>, <<>>, <<>>, <<as>>, <<>>,
                Filter(i, as, c, l))

CallIn ==
    \E x \in Exprs, y \in Exprs :
        Returns("In", <<x, y>>, <<>>, <<>>, <<>>, <<>>, In(x, y))

CallMap ==
    \E i \in Exprs, as \in AsNames, e \in Exprs :
        Returns("Map", <<i, e>>, <<>>, <<>>, <<as>>, <<>>, Map(i, as, e))

CallMax ==
    \E xs \in Variadic(Exprs) :
        Returns("Max", xs, <<>>, <<>>, <<>>, <<>>, Max(xs))

CallMin ==
    \E xs \in Variadic(Exprs) :
        Returns("Min", xs, <<>>, <<>>, <<>>, <<>>, Min(xs))

CallMergeObjects ==
    \E xs \in Variadic(Exprs) :
        Returns("MergeObjects", xs, <<>>, <<>>, <<>>, <<>>, MergeObjects(xs))

CallNe ==
    \E x \in Exprs, y \in Exprs :
        Returns("Ne", <<x, y>>, <<>>, <<>>, <<>>, <<>>, Ne(x, y))

CallOr ==
    \E xs \in Variadic(Exprs) :
        Returns("Or", xs, <<>>, <<>>, <<>>, <<>>, Or(xs))

CallReduce ==
    \E i \in Exprs, v \in Exprs, e \in Exprs :
        Returns("Reduce", <<i, v, e>>, <<>>, <<>>, <<>>, <<>>,
                Reduce(i, v, e))

CallSum ==
    \E x \in Exprs :
        Returns("Sum", <<x>>, <<>>, <<>>, <<>>, <<>>, Sum(x))

CallTop ==
    \E o \in Exprs, ss \in Variadic(SortBys) :
        Returns("Top", <<o>>, <<>>, ss, <<>>, <<>>, Top(o, ss))

CallTopN ==
    \E o \in Counts, n \in Counts, ss \in Variadic(SortBys) :
        Returns("TopN", <<>>, <<>>, ss, <<>>, <<o, n>>, TopN(o, n, ss))

CallTopNExpr ==
    \E o \in Exprs, n \in Exprs, ss \in Variadic(SortBys) :
        Returns("TopNExpr", <<o, n>>, <<>>, ss, <<>>, <<>>,
                TopNExpr(o, n, ss))

NextAgg ==
    \/ CallAddFields
    \/ CallCount
    \/ CallCountAccumulator
    \/ CallGroup
    \/ CallMatch
    \/ CallProject
    \/ CallSort
    \/ CallUnset
    \/ CallUnwind
    \/ CallAbs
    \/ CallBottom
    \/ CallBottomN
    \/ CallBottomNExpr
    \/ CallCond
    \/ CallDivide
    \/ CallEq
    \/ CallFilter
    \/ CallIn
    \/ CallMap
    \/ CallMax
    \/ CallMin
    \/ CallMergeObjects
    \/ CallNe
    \/ CallOr
    \/ CallReduce
    \/ CallSum
    \/ CallTop
    \/ CallTopN
    \/ CallTopNExpr

SpecAgg == InitAgg /\ [][NextAgg]_vars

-----------------------------------------------------------------------------
(* Properties of filterTests, checked under SpecFilter *)

\* q is a strict descendant of p: q starts with p followed by "/"
IsAncestor(p, q) == HasPrefix(q, p \o <<Slash>>)

\* C1: for every slice passed to filterTests, no returned name is a strict
\* ancestor of another returned name, also when a name that sorts between
\* p and p + "/..." (such as p + "-x") is present.
C1_NoReturnedAncestor ==
    fpc # "input" =>
        \A i, j \in DOMAIN res : ~IsAncestor(res[i], res[j])

\* C2: filterTests is idempotent: filterTests(filterTests(T)) is the same
\* sequence as filterTests(T).
C2_Idempotent ==
    fpc = "refiltered" => again = res

\* the slice holds exactly "a", "a/b" and "c", in some order
IsABC(s) ==
    /\ Len(s) = 3
    /\ {s[i] : i \in DOMAIN s} = {NameA, NameAB, NameC}

RECURSIVE Unsuppressed(_, _)
Unsuppressed(s, i) ==
    IF i > Len(s) THEN <<>>
    ELSE IF i < Len(s) /\ IsAncestor(s[i], s[i + 1])
         THEN Unsuppressed(s, i + 1)
         ELSE <<s[i]>> \o Unsuppressed(s, i + 1)

\* C4: filterTests returns, in lexicographic order, exactly the input
\* names not suppressed by the prefix rule: a name is left out iff the name
\* immediately after it in the sorted input starts with it + "/"; the last
\* name in sorted order, and the only name of a one-element input, is
\* returned.
C4_ExactlyUnsuppressed ==
    fpc # "input" => res = Unsuppressed(SortStrings(input), 1)

-----------------------------------------------------------------------------
(* Properties of topfail, checked under SpecReport *)

\* topfail has printed its table
TopfailDone == pc = "done" /\ cmd.name = "topfail"

\* the rows of the table topfail printed
TopRows == out[1].Rows

\* the prefix-filtered failing-test list of every entry of the tree
FilteredLists ==
    LET es == Entries(infos)
    IN  [i \in DOMAIN es |-> filterTests(es[i].FailedTests)]

\* how often name n occurs in the lists fl
OccurrencesIn(fl, n) ==
    Cardinality(UNION {
        {<<i, j>> : j \in {k \in DOMAIN fl[i] : fl[i][k] = n}} :
        i \in DOMAIN fl})

\* how often name n occurs in the prefix-filtered lists of all entries
Occurrences(n) == OccurrencesIn(FilteredLists, n)

\* how many entries have n in their prefix-filtered list
EntriesWith(n) ==
    LET fl == FilteredLists
    IN  Cardinality({i \in DOMAIN fl : \E j \in DOMAIN fl[i] : fl[i][j] = n})

\* the distinct tallied test names
TalliedNames ==
    LET fl == FilteredLists
    IN  {n \in ReportNames : OccurrencesIn(fl, n) > 0}

Lesser(a, b) == IF a <= b THEN a ELSE b

\* the table holds one row for every distinct tallied name
AllTalliedNamesPrinted ==
    /\ Len(TopRows) = Cardinality(TalliedNames)
    /\ {TopRows[i].Key : i \in DOMAIN TopRows} = TalliedNames

\* C5 as stated: a limit K that is 0 or negative means "no limit": for
\* K <= 0 the table has one row for every distinct tallied test name.
C5_NonPositiveLimitIsNoLimit ==
    (TopfailDone /\ cmd.limit <= 0) => AllTalliedNamesPrinted

\* C5 as amended: a negative limit K means "no limit" (one row for every
\* distinct tallied test name, whatever their number); a limit of 0 prints
\* a table with no rows.
C5_NegativeLimitIsNoLimit ==
    /\ (TopfailDone /\ cmd.limit < 0) => AllTalliedNamesPrinted
    /\ (TopfailDone /\ cmd.limit = 0) => TopRows = <<>>

\* C5's case: topfail --limit 0 has printed its table for a tree with
\* several tallied names
C5_Witness ==
    /\ TopfailDone
    /\ cmd.limit = 0
    /\ Cardinality(TalliedNames) >= 2

\* C6 as stated: when the number of distinct tallied names equals the
\* limit K > 0, the truncation drops one row and the table has K-1 rows.
C6_DropsOneRowAtLimit ==
    (TopfailDone /\ cmd.limit > 0
        /\ Cardinality(TalliedNames) = cmd.limit)
    => Len(TopRows) = cmd.limit - 1

\* C6 as amended: when the number of distinct tallied names equals the
\* limit K > 0, the truncation drops nothing and the table has K rows, one
\* for every tallied name.
C6_KeepsAllRowsAtLimit ==
    (TopfailDone /\ cmd.limit > 0
        /\ Cardinality(TalliedNames) = cmd.limit)
    => (Len(TopRows) = cmd.limit /\ AllTalliedNamesPrinted)

\* C6's case: two tallied names and --limit 2
C6_Witness ==
    /\ TopfailDone
    /\ cmd.limit = 2
    /\ Cardinality(TalliedNames) = 2

\* what C7 says of the table, for a given notion of a name's count
TopKTable(count(_)) ==
    /\ Len(TopRows) = Lesser(cmd.limit, Cardinality(TalliedNames))
    /\ \A i, j \in DOMAIN TopRows : i # j => TopRows[i].Key # TopRows[j].Key
    /\ \A i \in DOMAIN TopRows :
        /\ TopRows[i].Key \in TalliedNames
        /\ TopRows[i].Count = count(TopRows[i].Key)
    /\ \A i, j \in DOMAIN TopRows : i < j => TopRows[i].Count >= TopRows[j].Count
    /\ \A n \in TalliedNames \ {TopRows[i].Key : i \in DOMAIN TopRows} :
        \A i \in DOMAIN TopRows : count(n) <= TopRows[i].Count

\* C7 as stated: for K > 0 topfail prints the top K tests by count, the
\* count of a name being the number of (version, variant, task) entries
\* whose prefix-filtered list contains it; min(K, distinct names) rows, in
\* non-increasing order of count, no left-out name with a greater count.
C7_TopKByEntryCount ==
    (TopfailDone /\ cmd.limit > 0) => TopKTable(EntriesWith)

\* C7 as amended: the same, the count of a name being the number of its
\* occurrences in the prefix-filtered lists of all entries (a name that a
\* task lists twice counts twice for that task).
C7_TopKByOccurrences ==
    (TopfailDone /\ cmd.limit > 0) => TopKTable(Occurrences)

\* C7's case: --limit 1 cuts a table of several names with different
\* counts, the counts coming from different versions
C7_Witness ==
    /\ TopfailDone
    /\ cmd.limit = 1
    /\ Cardinality(TalliedNames) >= 2
    /\ \E n \in TalliedNames : Occurrences(n) = 1
    /\ \E n \in TalliedNames : EntriesWith(n) = 2

-----------------------------------------------------------------------------
(* Properties of failstats, checked under SpecReport *)

\* failstats has printed its three tables
FailstatsDone == pc = "done" /\ cmd.name = "failstats"

\* the failing-test entries (entry index, position in the task's list,
\* before any filtering) of es whose name contains NAME and whose entry
\* has the identifier k in field which
MatchesOf(es, which, k) ==
    UNION {
        {<<i, j>> : j \in {n \in DOMAIN es[i].FailedTests :
            /\ es[i][which] = k
            /\ Contains(es[i].FailedTests[n], cmd.test)}} :
        i \in DOMAIN es}

\* table t has exactly the keys with a non-zero counter, each once and
\* with its tallied count, in non-increasing order of count
RankedTable(es, t, which) ==
    LET keys == {es[i][which] : i \in DOMAIN es}
        count == [k \in keys |-> Cardinality(MatchesOf(es, which, k))]
    IN  /\ {t.Rows[i].Key : i \in DOMAIN t.Rows} = {k \in keys : count[k] > 0}
        /\ \A i, j \in DOMAIN t.Rows : i # j => t.Rows[i].Key # t.Rows[j].Key
        /\ \A i \in DOMAIN t.Rows : t.Rows[i].Count = count[t.Rows[i].Key]
        /\ \A i, j \in DOMAIN t.Rows :
               i < j => t.Rows[i].Count >= t.Rows[j].Count

\* C8: failstats tallies every failing-test entry whose name contains NAME,
\* without applying the prefix filter: each adds exactly 1 to the counter
\* of its version id, of its variant display name and of its task name;
\* each of the three tables holds exactly the keys with a non-zero counter,
\* each with its tallied count, in non-increasing order of count.
C8_FailstatsTables ==
    FailstatsDone =>
        LET es == Entries(infos)
        IN  /\ Len(out) = 3
            /\ out[1].Header = "Version" /\ RankedTable(es, out[1], "VersionID")
            /\ out[2].Header = "Variant" /\ RankedTable(es, out[2], "DisplayName")
            /\ out[3].Header = "Task" /\ RankedTable(es, out[3], "Task")

\* C8's case: a task lists "a" and its child "a/b", NAME is "a", and the
\* version table ranks two versions with different counts
C8_Witness ==
    /\ FailstatsDone
    /\ cmd.test = NameA
    /\ \E i \in DOMAIN Entries(infos) :
           Entries(infos)[i].FailedTests = <<NameA, NameAB>>
    /\ Len(out[1].Rows) = 2
    /\ out[1].Rows[1].Count = 2
    /\ out[1].Rows[2].Count = 1
    /\ Len(out[2].Rows) = 1

-----------------------------------------------------------------------------
(* Properties of the report fetch, checked under Spec *)

\* the last query failed: the transport, the body's JSON, its errors array
\* or the decoding of its data
LastQueryFailed ==
    /\ queries # <<>>
    /\ \/ resp.transport # "ok"
       \/ ~resp.json
       \/ Len(resp.errors) > 0
       \/ ~resp.typed

\* C9: if any query of a report fetch fails (the summary query or the
\* detail query of any variant of any version), the whole report is
\* aborted: getInfos returns an error and no tree (not the versions and
\* variants already fetched), no query is issued after the failing one,
\* and the command returns the error without printing any table.
C9_FailedQueryAbortsReport ==
    /\ \A i \in 1..(Len(queries) - 1) : queries[i].ok
    /\ queries # <<>> => (queries[Len(queries)].ok <=> ~LastQueryFailed)
    /\ LastQueryFailed =>
        /\ pc = "failed"
        /\ err # <<>>
        /\ Head(err) = "error getting revision info"
        /\ infos = <<>>
        /\ out = <<>>

\* C9's case: the first version has been fetched, and the detail query of
\* a variant of the second version is answered with a GraphQL error
C9_Witness ==
    /\ pc = "failed"
    /\ Len(queries) = 3
    /\ queries[2].versionId = "v1"
    /\ queries[3].versionId = "v2"
    /\ resp.status = 200
    /\ Len(resp.errors) > 0

\* the last response has a status outside 200-299
Non2xx ==
    /\ queries # <<>>
    /\ resp.transport = "ok"
    /\ (resp.status < 200 \/ resp.status > 299)

GraphqlReturnedBody ==
    \/ pc # "failed"
    \/ /\ Len(err) = 2
       /\ err[2] \in {"error unmarshaling mainlineCommits",
                      "error unmarshaling taskTestSample"}

\* graphql returned this error and no body for the last response
GraphqlReturnedError(e) ==
    /\ pc = "failed"
    /\ Len(err) = 3
    /\ err[2] \in {"error querying mainlineCommits",
                   "error querying taskTestSample"}
    /\ err[3] = e
    /\ infos = <<>>
    /\ out = <<>>

\* the last query got a response whose body is valid JSON
AnsweredWithJSON ==
    /\ queries # <<>>
    /\ resp.transport = "ok"
    /\ resp.json

\* C11 as stated: whenever a response body has a non-empty top-level
\* errors array, graphql returns an error and no data, whatever the HTTP
\* status; when the array is absent or empty and the body is valid JSON,
\* the body is returned unchanged.
C11_ValidJSONWithoutErrorsIsReturned ==
    AnsweredWithJSON =>
        IF Len(resp.errors) > 0
        THEN GraphqlReturnedError("GraphQL API returned errors")
        ELSE GraphqlReturnedBody

\* C11 as amended: a non-empty errors array makes graphql return an error
\* and no data at every status; a JSON object whose errors array is absent
\* or empty is returned as read; a valid JSON body that is not an object
\* makes graphql return its unmarshaling error and no data.
C11_ObjectWithoutErrorsIsReturned ==
    AnsweredWithJSON =>
        IF Len(resp.errors) > 0
        THEN GraphqlReturnedError("GraphQL API returned errors")
        ELSE IF resp.top = "object"
        THEN GraphqlReturnedBody
        ELSE GraphqlReturnedError(
                "error unmarshaling GraphQL response to check for errors")

\* C11's case: the summary query is answered with status 200 and a body
\* whose errors array is not empty, and graphql has returned the error
C11_Witness ==
    /\ Len(queries) = 1
    /\ resp.transport = "ok"
    /\ resp.status = 200
    /\ resp.top = "object"
    /\ Len(resp.errors) > 0
    /\ GraphqlReturnedError("GraphQL API returned errors")

-----------------------------------------------------------------------------
(* The tree under the reporters, checked under SpecReport *)

\* C12: after getInfos has returned the RevisionInfo tree, the tree is
\* immutable: neither the topfail nor the failstats reporter changes any
\* field of any RevisionInfo, VariantInfo or TaskInfo, including the order
\* of the names in a task's list of failing tests.
C12_ReportersLeaveTreeUnchanged ==
    [][pc = "report" => infos' = infos]_vars

-----------------------------------------------------------------------------
(* Properties of package agg, checked under SpecAgg *)

\* the operators that collapse a single argument, and their keys
CollapsingKey ==
    [Max |-> "$max", Min |-> "$min", MergeObjects |-> "$mergeObjects"]

\* a collapsing operator has returned
CollapsingReturned ==
    /\ apc = "returned"
    /\ call.fn \in DOMAIN CollapsingKey

\* C13: single-argument collapsing: for each of Max, Min and MergeObjects,
\* a call with exactly one argument x returns the fragment {op: x} with
\* the bare value, and a call with any other number of arguments (two or
\* more, and also zero) returns {op: [args...]} with the arguments as a
\* list in call order, where op is "$max", "$min" or "$mergeObjects".
C13_SingleArgumentCollapses ==
    CollapsingReturned =>
        /\ Len(doc) = 1
        /\ doc[1].Key = CollapsingKey[call.fn]
        /\ IF Len(call.exprs) = 1
           THEN doc[1].Value = call.exprs[1]
           ELSE /\ doc[1].Value.kind = "A"
                /\ doc[1].Value.items = call.exprs

\* C13's case: MergeObjects has been called with one argument, itself a
\* list, and has returned that list as the bare value
C13_Witness ==
    /\ apc = "returned"
    /\ call.fn = "MergeObjects"
    /\ Len(call.exprs) = 1
    /\ call.exprs[1].kind = "A"
    /\ doc[1].Value = call.exprs[1]

\* the key each stage builder and operator builder is named after
KeyOf ==
    [AddFields |-> "$addFields", Count |-> "$count", Group |-> "$group",
     Match |-> "$match", Project |-> "$project", Sort |-> "$sort",
     Unset |-> "$unset", Unwind |-> "$unwind",
     Abs |-> "$abs", Bottom |-> "$bottom", BottomN |-> "$bottomN",
     Cond |-> "$cond", Divide |-> "$divide", Eq |-> "$eq",
     Filter |-> "$filter", In |-> "$in", Map |-> "$map", Max |-> "$max",
     Min |-> "$min", MergeObjects |-> "$mergeObjects", Ne |-> "$ne",
     Or |-> "$or", Reduce |-> "$reduce", Sum |-> "$sum", Top |-> "$top",
     TopN |-> "$topN", CountAccumulator |-> "$count"]

\* C14: every stage builder (AddFields, Count, Group, Match, Project, Sort,
\* Unset, Unwind) and every operator builder (Abs, Bottom, BottomN, Cond,
\* Divide, Eq, Filter, In, Map, Max, Min, MergeObjects, Ne, Or, Reduce,
\* Sum, Top, TopN, CountAccumulator) returns, for every argument list
\* including an empty variadic list, a document with exactly one top-level
\* key, and that key is the "$"-prefixed name of the stage or operator the
\* function is named after.
C14_OneTopLevelKey ==
    (apc = "returned" /\ call.fn \in DOMAIN KeyOf) =>
        /\ Len(doc) = 1
        /\ doc[1].Key = KeyOf[call.fn]

\* C14's case: Group has been called with two accumulators and has
\* returned
C14_Witness ==
    /\ apc = "returned"
    /\ call.fn = "Group"
    /\ Len(call.fields) = 2
    /\ Len(doc) = 1
    /\ Len(doc[1].Value.fields) = 3

-----------------------------------------------------------------------------
(* The order of the queries of a fetch, checked under Spec *)

\* the detail queries getInfos owes for the decoded summary response sm:
\* one for each build variant of each version, in response order
DetailQueriesFor(sm) ==
    ConcatAll([v \in DOMAIN sm |->
        [b \in DOMAIN sm[v].BuildVariants |->
            Query("taskTestSample", sm[v].ID,
                  {sm[v].BuildVariants[b].Tasks[t].ID :
                      t \in DOMAIN sm[v].BuildVariants[b].Tasks},
                  TRUE)]])

QueriesFor(sm) ==
    <<Query("mainlineCommits", "", {}, TRUE)>> \o DetailQueriesFor(sm)

\* the fetch of this run has returned a tree
FetchReturned ==
    /\ pc \in {"report", "done"}
    /\ queries # <<>>

\* the tree has one RevisionInfo per version and one VariantInfo per build
\* variant of the summary response, in response order
TreeFollowsSummary ==
    /\ Len(infos) = Len(summary)
    /\ \A v \in DOMAIN summary :
        /\ infos[v].VersionID = summary[v].ID
        /\ infos[v].Revision = summary[v].Revision
        /\ Len(infos[v].FailedVariants) = Len(summary[v].BuildVariants)
        /\ \A b \in DOMAIN summary[v].BuildVariants :
               infos[v].FailedVariants[b].DisplayName =
                   summary[v].BuildVariants[b].DisplayName

\* a step issues at most one query, after the ones already issued
OneQueryAtATime ==
    /\ Len(queries') <= Len(queries) + 1
    /\ SubSeq(queries', 1, Len(queries)) = queries

\* C15: in a report fetch without errors, the queries are issued strictly
\* one after another in this order: exactly one summary query first, then
\* exactly one detail query for each build variant of each version of the
\* summary response, in response order (also for a variant whose task
\* list is empty); no query is repeated or retried, and the returned tree
\* has one RevisionInfo per version and one VariantInfo per build variant
\* in that same order.
C15_OneQueryPerVariantInOrder ==
    /\ [](pc = "detail" =>
            /\ Len(queries) < Len(QueriesFor(summary))
            /\ queries = SubSeq(QueriesFor(summary), 1, Len(queries)))
    /\ [](FetchReturned =>
            /\ queries = QueriesFor(summary)
            /\ TreeFollowsSummary)
    /\ [][OneQueryAtATime]_vars

\* C15's case: a fetch of two versions, the first with a build variant
\* without tasks, has returned after a summary query and three detail
\* queries
C15_Witness ==
    /\ pc = "report"
    /\ Len(summary) = 2
    /\ summary[1].BuildVariants # <<>>
    /\ summary[1].BuildVariants[1].Tasks = <<>>
    /\ Len(queries) = 4
    /\ queries[2].taskIds = {}
    /\ Len(infos) = 2

=============================================================================
